---- MODULE Spec2Model ----
(***************************************************************************)
(* Model of the Ago runtime library (src/rust/src): the AgoType tagged     *)
(* union, the collection primitives get / set / inseri / removium and the  *)
(* casting matrix AgoType::as_type.                                        *)
(*                                                                         *)
(* Encoding.  An AgoType value is a record whose field k is the variant.   *)
(* A scalar stored inside a typed Vec (i128, f64, bool, String) is the     *)
(* same record as the primitive variant that wraps it, so that the Rust    *)
(* type of every stored element stays visible in the model.  A String is   *)
(* a sequence of one-character strings.  A panic is the record Err(e),     *)
(* e naming the failure kind of the message the code panics with.          *)
(* The machine widths are scaled down: usize is arithmetic modulo          *)
(* UsizeMod and i128 is the interval I128Min..I128Max.                     *)
(***************************************************************************)
EXTENDS Integers, Sequences, FiniteSets, TLC

\* ------------------------------------------------------------------ bounds
UsizeMod == 8
I128Max == 15
MaxLen == 3

I128Min == -I128Max - 1

\* ------------------------------------------------------------ AgoType
AgoInt(n) == [k |-> "Int", v |-> n]
AgoFloat(f) == [k |-> "Float", v |-> f]
AgoBool(b) == [k |-> "Bool", v |-> b]
AgoString(s) == [k |-> "String", v |-> s]
AgoIntList(l) == [k |-> "IntList", v |-> l]
AgoFloatList(l) == [k |-> "FloatList", v |-> l]
AgoBoolList(l) == [k |-> "BoolList", v |-> l]
AgoStringList(l) == [k |-> "StringList", v |-> l]
AgoStruct(m) == [k |-> "Struct", v |-> m]
AgoListAny(l) == [k |-> "ListAny", v |-> l]
AgoRange(s, e, i) == [k |-> "Range", v |-> [start |-> s, end |-> e, inclusive |-> i]]
AgoNull == [k |-> "Null"]

\* A panic with the failure kind e, the unit value () and "no argument".
Err(e) == [k |-> "Err", e |-> e]
Unit == [k |-> "Unit"]
NoArg == [k |-> "None"]

IsErr(r) == r.k = "Err"

TypedListKinds == {"IntList", "FloatList", "BoolList", "StringList"}
ListKinds == TypedListKinds \cup {"ListAny"}

\* The primitive variant that wraps an element of a typed list.
ElemKind(lk) ==
  CASE lk = "IntList" -> "Int"
    [] lk = "FloatList" -> "Float"
    [] lk = "BoolList" -> "Bool"
    [] lk = "StringList" -> "String"

\* `if let AgoType::Int(new_val) = value` on a Vec<i128>, and likewise for
\* the other typed lists: does value unwrap to the list's element type?
KindMatchesWidening(lk, value) ==
  value.k = ElemKind(lk) \/ (lk = "FloatList" /\ value.k = "Int")
KindMatches(lk, value) == value.k = ElemKind(lk)

\* AgoType::Int(*val), AgoType::Float(*val), ...: wrap a stored scalar.
Wrap(pk, val) == [k |-> pk, v |-> val.v]

\* `x as usize` for an i128 x: the low bits are kept.
AsUsize(x) == x % UsizeMod

Min(a, b) == IF a < b THEN a ELSE b
Max(a, b) == IF a > b THEN a ELSE b

\* Vec::insert(idx, x) and Vec::remove(idx) on a sequence (0-based idx).
VecInsert(l, idx, x) == SubSeq(l, 1, idx) \o <<x>> \o SubSeq(l, idx + 1, Len(l))
VecRemovePop(l, idx) == SubSeq(l, 1, Len(l) - 1)
VecRemove(l, idx) == SubSeq(l, 1, idx) \o SubSeq(l, idx + 2, Len(l))

\* `*elem = new_val` through list.get_mut(idx).
VecSetFill(l, idx, x) == [i \in 1..Len(l) |-> IF i >= idx + 1 THEN x ELSE l[i]]
VecSet(l, idx, x) == [l EXCEPT ![idx + 1] = x]

\* HashMap::insert and HashMap::remove.
MapInsertIfAbsent(m, key, x) ==
  [q \in DOMAIN m \cup {key} |-> IF q \in DOMAIN m THEN m[q] ELSE x]
MapInsert(m, key, x) == [q \in DOMAIN m \cup {key} |-> IF q = key THEN x ELSE m[q]]
MapRemove(m, key) == [q \in DOMAIN m \ {key} |-> m[q]]

\* ----------------------------------------------------------- collections
\* range_bounds: oc is the build's overflow-checks setting, which decides
\* what `range.end + 1` does at i128::MAX (panic, or wrap to i128::MIN).
range_bounds(range, len, oc) ==
  LET start == AsUsize(Max(range.start, 0))
      plus1 == IF range.end = I128Max THEN I128Min ELSE range.end + 1
      end == IF range.inclusive
               THEN AsUsize(Min(plus1, len))
               ELSE AsUsize(Min(range.end, len))
  IN IF range.inclusive /\ range.end = I128Max /\ oc
       THEN Err("ArithmeticOverflow")
       ELSE [k |-> "Bounds", start |-> Min(start, len), end |-> Min(end, len)]

\* list[start..end]: panics when start > end.
Slice(l, b) ==
  IF b.start > b.end THEN Err("SliceIndexOrder")
  ELSE [k |-> "Ok", v |-> SubSeq(l, b.start + 1, b.end)]

get(iter, n, oc) ==
  CASE iter.k \in TypedListKinds /\ n.k = "Int" ->
         LET idx == AsUsize(n.v)
         IN IF idx < Len(iter.v)
              THEN Wrap(ElemKind(iter.k), iter.v[idx + 1])
              ELSE Err("IndexOutOfBounds")
    [] iter.k = "ListAny" /\ n.k = "Int" ->
         LET idx == AsUsize(n.v)
         IN IF idx < Len(iter.v) THEN iter.v[idx + 1] ELSE Err("IndexOutOfBounds")
    [] iter.k \in ListKinds /\ n.k = "Range" ->
         LET b == range_bounds(n.v, Len(iter.v), oc)
         IN IF IsErr(b) THEN b
            ELSE LET s == Slice(iter.v, b)
                 IN IF IsErr(s) THEN s ELSE [k |-> iter.k, v |-> s.v]
    [] iter.k = "String" /\ n.k = "Int" ->
         LET idx == AsUsize(n.v)
         IN IF idx < Len(iter.v)
              THEN AgoString(<<iter.v[idx + 1]>>)
              ELSE Err("IndexOutOfBounds")
    [] iter.k = "String" /\ n.k = "Range" ->
         LET b == range_bounds(n.v, Len(iter.v), oc)
         IN IF IsErr(b) THEN b
            ELSE LET s == Slice(iter.v, b)
                 IN IF IsErr(s) THEN s ELSE AgoString(s.v)
    [] iter.k = "Struct" /\ n.k = "String" ->
         IF n.v \in DOMAIN iter.v THEN iter.v[n.v] ELSE Err("KeyNotFound")
    [] iter.k = "Struct" /\ n.k # "String" -> Err("KeyTypeMismatch")
    [] iter.k \in ListKinds \cup {"String"} /\ n.k \notin {"Int", "Range"} ->
         Err("IndexKindMismatch")
    [] OTHER -> Err("UnsupportedContainerOperation")

\* set, inseri and removium return the container after the call (coll) and
\* what the call returned (ret); a panic leaves the container as it was.
DoneEmptiesOnError(c, r) ==
  [coll |-> IF IsErr(r) /\ c.k \in ListKinds THEN [c EXCEPT !.v = <<>>] ELSE c,
   ret |-> r]
Done(c, r) == [coll |-> c, ret |-> r]

set(iter, n, value) ==
  CASE iter.k \in TypedListKinds /\ n.k = "Int" ->
         LET idx == AsUsize(n.v)
         IN IF idx < Len(iter.v)
              THEN IF KindMatches(iter.k, value)
                     THEN Done([iter EXCEPT !.v = VecSet(iter.v, idx, value)], Unit)
                     ELSE Done(iter, Err("ValueKindMismatch"))
              ELSE Done(iter, Err("IndexOutOfBounds"))
    [] iter.k = "ListAny" /\ n.k = "Int" ->
         LET idx == AsUsize(n.v)
         IN IF idx < Len(iter.v)
              THEN Done([iter EXCEPT !.v = VecSet(iter.v, idx, value)], Unit)
              ELSE Done(iter, Err("IndexOutOfBounds"))
    [] iter.k = "String" /\ n.k = "Int" ->
         LET idx == AsUsize(n.v)
         IN IF value.k = "String"
              THEN IF Len(value.v) # 1
                     THEN Done(iter, Err("InvalidCharacterReplacement"))
                     ELSE IF idx < Len(iter.v)
                            THEN Done([iter EXCEPT !.v = VecSet(iter.v, idx, value.v[1])], Unit)
                            ELSE Done(iter, Err("IndexOutOfBounds"))
              ELSE Done(iter, Err("ValueKindMismatch"))
    [] iter.k = "Struct" /\ n.k = "String" ->
         Done([iter EXCEPT !.v = MapInsert(iter.v, n.v, value)], Unit)
    [] iter.k = "Struct" /\ n.k # "String" -> Done(iter, Err("KeyTypeMismatch"))
    [] iter.k \in ListKinds /\ n.k # "Int" -> Done(iter, Err("IndexKindMismatch"))
    [] OTHER -> Done(iter, Err("UnsupportedContainerOperation"))

inseri(coll, key, value) ==
  CASE coll.k \in TypedListKinds /\ key.k = "Int" ->
         LET idx == AsUsize(key.v)
         IN IF KindMatches(coll.k, value)
              THEN IF idx <= Len(coll.v)
                     THEN Done([coll EXCEPT !.v = VecInsert(coll.v, idx, value)], Unit)
                     ELSE Done(coll, Err("IndexOutOfBounds"))
              ELSE Done(coll, Err("ValueKindMismatch"))
    [] coll.k = "ListAny" /\ key.k = "Int" ->
         LET idx == AsUsize(key.v)
         IN IF idx <= Len(coll.v)
              THEN Done([coll EXCEPT !.v = VecInsert(coll.v, idx, value)], Unit)
              ELSE Done(coll, Err("IndexOutOfBounds"))
    [] coll.k = "Struct" /\ key.k = "String" ->
         Done([coll EXCEPT !.v = MapInsert(coll.v, key.v, value)], Unit)
    [] coll.k = "Struct" /\ key.k # "String" -> Done(coll, Err("KeyTypeMismatch"))
    [] coll.k \in ListKinds /\ key.k # "Int" -> Done(coll, Err("IndexKindMismatch"))
    [] OTHER -> Done(coll, Err("UnsupportedContainerOperation"))

removiumFromString(coll, key) ==
  CASE coll.k \in TypedListKinds /\ key.k = "Int" ->
         LET idx == AsUsize(key.v)
         IN IF idx < Len(coll.v)
              THEN Done([coll EXCEPT !.v = VecRemove(coll.v, idx)],
                        Wrap(ElemKind(coll.k), coll.v[idx + 1]))
              ELSE Done(coll, Err("IndexOutOfBounds"))
    [] coll.k = "ListAny" /\ key.k = "Int" ->
         LET idx == AsUsize(key.v)
         IN IF idx < Len(coll.v)
              THEN Done([coll EXCEPT !.v = VecRemove(coll.v, idx)], coll.v[idx + 1])
              ELSE Done(coll, Err("IndexOutOfBounds"))
    [] coll.k = "Struct" /\ key.k = "String" ->
         IF key.v \in DOMAIN coll.v
           THEN Done([coll EXCEPT !.v = MapRemove(coll.v, key.v)], coll.v[key.v])
           ELSE Done(coll, Err("KeyNotFound"))
    [] coll.k = "Struct" /\ key.k # "String" -> Done(coll, Err("KeyTypeMismatch"))
    [] coll.k \in ListKinds /\ key.k # "Int" -> Done(coll, Err("IndexKindMismatch"))
    [] coll.k = "String" /\ key.k = "Int" /\ AsUsize(key.v) < Len(coll.v) ->
         Done([coll EXCEPT !.v = VecRemove(coll.v, AsUsize(key.v))],
              AgoString(<<coll.v[AsUsize(key.v) + 1]>>))
    [] OTHER -> Done(coll, Err("UnsupportedContainerOperation"))
removium(coll, key) ==
  CASE coll.k \in TypedListKinds /\ key.k = "Int" ->
         LET idx == AsUsize(key.v)
         IN IF idx < Len(coll.v)
              THEN Done([coll EXCEPT !.v = VecRemove(coll.v, idx)],
                        Wrap(ElemKind(coll.k), coll.v[idx + 1]))
              ELSE Done(coll, Err("IndexOutOfBounds"))
    [] coll.k = "ListAny" /\ key.k = "Int" ->
         LET idx == AsUsize(key.v)
         IN IF idx < Len(coll.v)
              THEN Done([coll EXCEPT !.v = VecRemove(coll.v, idx)], coll.v[idx + 1])
              ELSE Done(coll, Err("IndexOutOfBounds"))
    [] coll.k = "Struct" /\ key.k = "String" ->
         IF key.v \in DOMAIN coll.v
           THEN Done([coll EXCEPT !.v = MapRemove(coll.v, key.v)], coll.v[key.v])
           ELSE Done(coll, Err("KeyNotFound"))
    [] coll.k = "Struct" /\ key.k # "String" -> Done(coll, Err("KeyTypeMismatch"))
    [] coll.k \in ListKinds /\ key.k # "Int" -> Done(coll, Err("IndexKindMismatch"))
    [] OTHER -> Done(coll, Err("UnsupportedContainerOperation"))

\* ---------------------------------------------------------------- casting
MaxStrLen == 3

\* An f64 is a decimal m * 10^e with m not divisible by 10 (zero is 0e0), or
\* one of the specials: c is "fin", "inf" (m = 1 or -1 gives the sign) or "nan".
F64(m, e) == [c |-> "fin", m |-> m, e |-> e]
F64Inf(sign) == [c |-> "inf", m |-> sign, e |-> 0]
F64NaN == [c |-> "nan", m |-> 0, e |-> 0]

RECURSIVE Pow10(_)
Pow10(n) == IF n <= 0 THEN 1 ELSE 10 * Pow10(n - 1)

Abs(x) == IF x < 0 THEN -x ELSE x

RECURSIVE Normalize(_, _)
Normalize(m, e) ==
  IF m = 0 THEN F64(0, 0)
  ELSE IF m % 10 = 0 THEN Normalize(m \div 10, e + 1)
  ELSE F64(m, e)

Digits == <<"0", "1", "2", "3", "4", "5", "6", "7", "8", "9">>
DigitChars == {Digits[i] : i \in 1..10}
DigitVal(ch) == (CHOOSE i \in 1..10 : Digits[i] = ch) - 1

\* i128 / usize Display.
RECURSIVE NatToString(_)
NatToString(n) ==
  IF n < 10 THEN <<Digits[n + 1]>>
  ELSE NatToString(n \div 10) \o <<Digits[(n % 10) + 1]>>

IntToStringNoSign(n) == NatToString(Abs(n))
IntToString(n) == IF n < 0 THEN <<"-">> \o NatToString(-n) ELSE NatToString(n)

\* f64 Display: plain decimal notation, no exponent, no trailing ".0".
RECURSIVE Zeros(_)
Zeros(n) == IF n <= 0 THEN <<>> ELSE <<"0">> \o Zeros(n - 1)

FloatToString(f) ==
  CASE f.c = "nan" -> <<"N", "a", "N">>
    [] f.c = "inf" -> IF f.m < 0 THEN <<"-", "i", "n", "f">> ELSE <<"i", "n", "f">>
    [] OTHER ->
         LET sign == IF f.m < 0 THEN <<"-">> ELSE <<>>
             ds == NatToString(Abs(f.m))
         IN IF f.e >= 0 THEN sign \o ds \o Zeros(f.e)
            ELSE LET padded == Zeros(1 - f.e - Len(ds)) \o ds
                     cut == Len(padded) + f.e
                 IN sign \o SubSeq(padded, 1, cut) \o <<".">>
                         \o SubSeq(padded, cut + 1, Len(padded))

BoolToString(b) == IF b THEN <<"t", "r", "u", "e">> ELSE <<"f", "a", "l", "s", "e">>

\* Every finite f64 with a decimal exponent above MaxExp10 is beyond the i128
\* range (I128Max < 10^MaxExp10).
MaxExp10 == 6

\* `*val as i128` for an f64: truncates toward zero and saturates; NaN is 0.
FloatToInt(f) ==
  CASE f.c = "nan" -> 0
    [] f.c = "inf" -> IF f.m < 0 THEN I128Min ELSE I128Max
    [] OTHER ->
         IF f.e > MaxExp10 THEN (IF f.m < 0 THEN I128Min ELSE I128Max)
         ELSE LET t == IF f.e >= 0 THEN f.m * Pow10(f.e)
                       ELSE (IF f.m < 0 THEN -1 ELSE 1) * (Abs(f.m) \div Pow10(-f.e))
              IN Max(I128Min, Min(I128Max, t))

\* str::parse::<i128>: an optional sign and one or more digits, accumulated
\* with overflow checks; anything else is an error.
RECURSIVE ParseDigits(_, _, _)
ParseDigits(ds, acc, neg) ==
  IF ds = <<>> THEN [k |-> "Ok", v |-> acc]
  ELSE IF Head(ds) \notin DigitChars THEN Err("CastParseFailure")
  ELSE LET nxt == IF neg THEN acc * 10 - DigitVal(Head(ds))
                  ELSE acc * 10 + DigitVal(Head(ds))
       IN IF nxt < I128Min \/ nxt > I128Max THEN Err("CastParseFailure")
          ELSE ParseDigits(Tail(ds), nxt, neg)

parse_i128(src) ==
  IF src = <<>> THEN Err("CastParseFailure")
  ELSE IF src = <<"+">> \/ src = <<"-">> THEN Err("CastParseFailure")
  ELSE IF Head(src) = "-" THEN ParseDigits(Tail(src), 0, TRUE)
  ELSE IF Head(src) = "+" THEN ParseDigits(Tail(src), 0, FALSE)
  ELSE ParseDigits(src, 0, FALSE)

\* str::parse::<f64>: [sign] (inf | infinity | nan | digits [. digits]
\* [e [sign] digits]) with at least one mantissa digit.
AllDigits(ds) == \A i \in 1..Len(ds) : ds[i] \in DigitChars

RECURSIVE DigitsValue(_, _)
DigitsValue(ds, acc) ==
  IF ds = <<>> THEN acc ELSE DigitsValue(Tail(ds), acc * 10 + DigitVal(Head(ds)))

\* The position of the first element of s that is in the set cs, or 0.
FirstIn(s, cs) ==
  IF \E i \in 1..Len(s) : s[i] \in cs
    THEN CHOOSE i \in 1..Len(s) : s[i] \in cs /\ \A j \in 1..(i - 1) : s[j] \notin cs
    ELSE 0

Lower(ch) ==
  CASE ch = "I" -> "i" [] ch = "N" -> "n" [] ch = "F" -> "f" [] ch = "A" -> "a"
    [] ch = "T" -> "t" [] ch = "Y" -> "y" [] OTHER -> ch

parse_f64(src) ==
  LET neg == src # <<>> /\ Head(src) = "-"
      body == IF src # <<>> /\ Head(src) \in {"+", "-"} THEN Tail(src) ELSE src
      low == [i \in 1..Len(body) |-> Lower(body[i])]
      epos == FirstIn(body, {"e", "E"})
      mant == IF epos = 0 THEN body ELSE SubSeq(body, 1, epos - 1)
      expo == IF epos = 0 THEN <<>> ELSE SubSeq(body, epos + 1, Len(body))
      esign == expo # <<>> /\ Head(expo) \in {"+", "-"}
      edigits == IF esign THEN Tail(expo) ELSE expo
      dot == FirstIn(mant, {"."})
      ip == IF dot = 0 THEN mant ELSE SubSeq(mant, 1, dot - 1)
      fp == IF dot = 0 THEN <<>> ELSE SubSeq(mant, dot + 1, Len(mant))
      ev == (IF esign /\ Head(expo) = "-" THEN -1 ELSE 1) * DigitsValue(edigits, 0)
      mv == DigitsValue(ip \o fp, 0)
  IN IF low = <<"i", "n", "f">> \/ low = <<"i", "n", "f", "i", "n", "i", "t", "y">>
       THEN [k |-> "Ok", v |-> F64Inf(IF neg THEN -1 ELSE 1)]
     ELSE IF low = <<"n", "a", "n">> THEN [k |-> "Ok", v |-> F64NaN]
     ELSE IF ~AllDigits(ip) \/ ~AllDigits(fp) \/ Len(ip) + Len(fp) = 0
       THEN Err("CastParseFailure")
     ELSE IF epos # 0 /\ (edigits = <<>> \/ ~AllDigits(edigits))
       THEN Err("CastParseFailure")
     ELSE [k |-> "Ok", v |-> Normalize(IF neg THEN -mv ELSE mv, ev - Len(fp))]

\* [String]::join(sep).
RECURSIVE Join(_, _)
JoinTrailing(items, sep) ==
  IF items = <<>> THEN <<>> ELSE items[1] \o sep \o Join(Tail(items), sep)
Join(items, sep) ==
  IF items = <<>> THEN <<>>
  ELSE IF Len(items) = 1 THEN items[1]
  ELSE items[1] \o sep \o Join(Tail(items), sep)

\* HashMap iteration: the keys of m in the order ord, a sequence that lists
\* every possible key once (the order a HashMap iterates in is arbitrary).
KeysInOrder(m, ord) == SelectSeq(ord, LAMBDA q : q \in DOMAIN m)

\* The while loop of Range -> IntList.
RECURSIVE RangeLoop(_, _, _, _)
RangeLoopExclusive(i, end, inclusive, vec) ==
  IF i < end THEN RangeLoop(i + 1, end, FALSE, Append(vec, AgoInt(i))) ELSE vec
RangeLoop(i, end, inclusive, vec) ==
  IF i < end THEN RangeLoop(i + 1, end, inclusive, Append(vec, AgoInt(i)))
  ELSE IF inclusive /\ i = end THEN Append(vec, AgoInt(i))
  ELSE vec

\* The first panic among the element casts rs, or <<>> when there is none.
FirstErr(rs) ==
  LET p == FirstIn([i \in 1..Len(rs) |-> rs[i].k], {"Err"})
  IN IF p = 0 THEN <<>> ELSE <<rs[p]>>

\* The identity arms.
IdentityInclusiveRange(self) ==
  IF self.k = "Range" THEN AgoRange(self.v.start, self.v.end, TRUE) ELSE self
Identity(self) ==
  CASE self.k = "Int" -> AgoInt(self.v)
    [] self.k = "Float" -> AgoFloat(self.v)
    [] self.k = "Bool" -> AgoBool(self.v)
    [] self.k = "String" -> AgoString(self.v)
    [] self.k = "IntList" -> AgoIntList(self.v)
    [] self.k = "FloatList" -> AgoFloatList(self.v)
    [] self.k = "BoolList" -> AgoBoolList(self.v)
    [] self.k = "StringList" -> AgoStringList(self.v)
    [] self.k = "Struct" -> AgoStruct(self.v)
    [] self.k = "ListAny" -> AgoListAny(self.v)
    [] self.k = "Range" -> AgoRange(self.v.start, self.v.end, self.v.inclusive)
    [] self.k = "Null" -> AgoNull

\* The Null arms.
NullToWithLists(target) ==
  CASE target = "Bool" -> AgoBool(FALSE)
    [] target = "String" -> AgoString(<<"i", "n", "a", "n", "i", "s">>)
    [] target = "Int" -> AgoInt(0)
    [] target = "Float" -> AgoFloat(F64(0, 0))
    [] target = "IntList" -> AgoIntList(<<>>)
    [] OTHER -> Err("UnsupportedCast")
NullTo(target) ==
  CASE target = "Bool" -> AgoBool(FALSE)
    [] target = "String" -> AgoString(<<"i", "n", "a", "n", "i", "s">>)
    [] target = "Int" -> AgoInt(0)
    [] target = "Float" -> AgoFloat(F64(0, 0))
    [] OTHER -> Err("UnsupportedCast")

ListCtor(target, l) == [k |-> target, v |-> l]

\* String -> Bool.
StringToBoolIsEmpty(val) == AgoBool(val = <<>>)
StringToBool(val) == AgoBool(val # <<>>)

\* The list -> Range arms.
ListToRangeExclusive(val) == AgoRange(0, Len(val), FALSE)
ListToRange(val) == AgoRange(0, Len(val) - 1, TRUE)

\* Bool -> Float.
BoolToFloat(val) == AgoFloat(IF val THEN F64(42, -1) ELSE F64(-39, -1))

\* AgoType::as_type.  ord is the order in which HashMaps iterate.
RECURSIVE as_type(_, _, _)
RECURSIVE PairsToMap(_, _, _, _)

MapCastSkipFailed(val, elem, target, ord) ==
  LET rs == [i \in 1..Len(val) |-> as_type(val[i], elem, ord)]
  IN ListCtor(target, SelectSeq(rs, LAMBDA r : ~IsErr(r)))

\* val.iter().map(|item| item.as_type(elem)).collect() into the list `target`:
\* the first element cast that panics aborts the whole cast.
MapCast(val, elem, target, ord) ==
  LET rs == [i \in 1..Len(val) |-> as_type(val[i], elem, ord)]
  IN IF FirstErr(rs) # <<>> THEN FirstErr(rs)[1] ELSE ListCtor(target, rs)

\* items.join(sep) of the String casts of the elements of val.
JoinCast(val, sep, ord) ==
  LET rs == [i \in 1..Len(val) |-> as_type(val[i], "String", ord)]
  IN IF FirstErr(rs) # <<>> THEN FirstErr(rs)[1]
     ELSE AgoString(Join([i \in 1..Len(rs) |-> rs[i].v], sep))

StructToString(m, ord) ==
  LET keys == KeysInOrder(m, ord)
      rs == [i \in 1..Len(keys) |-> as_type(m[keys[i]], "String", ord)]
      parts == [i \in 1..Len(keys) |-> keys[i] \o <<":", " ">> \o rs[i].v]
  IN IF FirstErr(rs) # <<>> THEN FirstErr(rs)[1]
     ELSE AgoString(<<"{", " ">> \o Join(parts, <<",", " ">>) \o <<" ", "}">>)

PairsToMapFirstWins(val, i, m, ord) ==
  IF i > Len(val) THEN AgoStruct(m)
  ELSE LET inner == val[i].v
           key == IF inner[1].k = "String" THEN inner[1]
                  ELSE as_type(inner[1], "String", ord)
       IN IF IsErr(key) THEN key
          ELSE PairsToMap(val, i + 1, MapInsertIfAbsent(m, key.v, inner[2]), ord)
\* Case 2 of ListAny -> Struct: insert the pairs in order, later keys win.
PairsToMap(val, i, m, ord) ==
  IF i > Len(val) THEN AgoStruct(m)
  ELSE LET inner == val[i].v
           key == IF inner[1].k = "String" THEN inner[1]
                  ELSE as_type(inner[1], "String", ord)
       IN IF IsErr(key) THEN key
          ELSE PairsToMap(val, i + 1, MapInsert(m, key.v, inner[2]), ord)

ListAnyToStruct(val, ord) ==
  LET n == Len(val)
      all_strings == \A i \in 1..n : val[i].k = "String"
      all_pairs == \A i \in 1..n : val[i].k = "ListAny" /\ Len(val[i].v) = 2
      positions == [i \in 1..n |-> i]
  IN IF all_strings /\ n # 0
       THEN AgoStruct([q \in {val[i].v : i \in 1..n} |->
              LET at == SelectSeq(positions, LAMBDA i : val[i].v = q)
              IN AgoIntList([j \in 1..Len(at) |-> AgoInt(at[j] - 1)])])
     ELSE IF all_pairs /\ n # 0
       THEN PairsToMap(val, 1, <<>>, ord)
     ELSE AgoStruct([q \in {IntToString(i - 1) : i \in 1..n} |->
              val[CHOOSE i \in 1..n : IntToString(i - 1) = q]])

as_type(self, target, ord) ==
  IF target = "Any" THEN self
  ELSE IF target = self.k THEN Identity(self)
  ELSE
  CASE self.k = "Null" -> NullTo(target)
    [] self.k = "Int" ->
         CASE target = "Float" -> AgoFloat(Normalize(self.v, 0))
           [] target = "String" -> AgoString(IntToString(self.v))
           [] target = "Bool" -> AgoBool(self.v # 0)
           [] OTHER -> Err("UnsupportedCast")
    [] self.k = "Float" ->
         CASE target = "Int" -> AgoInt(FloatToInt(self.v))
           [] target = "String" -> AgoString(FloatToString(self.v))
           [] target = "Bool" -> AgoBool(~(self.v.c = "fin" /\ self.v.m = 0))
           [] OTHER -> Err("UnsupportedCast")
    [] self.k = "Bool" ->
         CASE target = "Int" -> AgoInt(IF self.v THEN 1 ELSE 0)
           [] target = "Float" -> BoolToFloat(self.v)
           [] target = "String" -> AgoString(BoolToString(self.v))
           [] OTHER -> Err("UnsupportedCast")
    [] self.k = "String" ->
         CASE target = "Int" ->
                LET r == parse_i128(self.v) IN IF IsErr(r) THEN r ELSE AgoInt(r.v)
           [] target = "Float" ->
                LET r == parse_f64(self.v) IN IF IsErr(r) THEN r ELSE AgoFloat(r.v)
           [] target = "Bool" -> StringToBool(self.v)
           [] target = "StringList" ->
                AgoStringList([i \in 1..Len(self.v) |-> AgoString(<<self.v[i]>>)])
           [] OTHER -> Err("UnsupportedCast")
    [] self.k \in TypedListKinds ->
         CASE target = "Int" -> AgoInt(Len(self.v))
           [] target = "String" -> JoinCast(self.v, <<"\n">>, ord)
           [] target = "Bool" -> AgoBool(self.v # <<>>)
           [] target = "Range" -> ListToRange(self.v)
           [] target \in TypedListKinds -> MapCast(self.v, ElemKind(target), target, ord)
           [] target = "ListAny" ->
                AgoListAny([i \in 1..Len(self.v) |-> Wrap(ElemKind(self.k), self.v[i])])
           [] OTHER -> Err("UnsupportedCast")
    [] self.k = "ListAny" ->
         CASE target = "Int" -> AgoInt(Len(self.v))
           [] target = "String" -> JoinCast(self.v, <<"\n">>, ord)
           [] target = "Bool" -> AgoBool(self.v # <<>>)
           [] target = "Range" -> ListToRange(self.v)
           [] target \in TypedListKinds -> MapCast(self.v, ElemKind(target), target, ord)
           [] target = "Struct" -> ListAnyToStruct(self.v, ord)
           [] OTHER -> Err("UnsupportedCast")
    [] self.k = "Struct" ->
         CASE target = "Bool" -> AgoBool(DOMAIN self.v # {})
           [] target = "String" -> StructToString(self.v, ord)
           [] target = "StringList" ->
                LET keys == KeysInOrder(self.v, ord)
                IN AgoStringList([i \in 1..Len(keys) |-> AgoString(keys[i])])
           [] OTHER -> Err("UnsupportedCast")
    [] self.k = "Range" ->
         CASE target = "Bool" ->
                AgoBool(~(IF self.v.inclusive THEN self.v.start > self.v.end
                          ELSE self.v.start >= self.v.end))
           [] target = "String" ->
                AgoString(IntToString(self.v.start)
                          \o (IF self.v.inclusive THEN <<".", ".">> ELSE <<".", "<">>)
                          \o IntToString(self.v.end))
           [] target = "IntList" ->
                IF self.v.start > self.v.end THEN AgoIntList(<<>>)
                ELSE AgoIntList(RangeLoop(self.v.start, self.v.end, self.v.inclusive, <<>>))
           [] OTHER -> Err("UnsupportedCast")

\* ------------------------------------------------------- collection machine
PrimVals(pk) ==
  CASE pk = "Int" -> {AgoInt(10), AgoInt(11)}
    [] pk = "Float" -> {AgoFloat(F64(15, -1)), AgoFloat(F64(0, 0))}
    [] pk = "Bool" -> {AgoBool(TRUE), AgoBool(FALSE)}
    [] pk = "String" -> {AgoString(<<"a">>), AgoString(<<"b">>)}

\* One value of every kind that is offered to set and inseri.
OneOfEach ==
  {AgoInt(10), AgoFloat(F64(15, -1)), AgoBool(TRUE), AgoString(<<"a">>),
   AgoNull, AgoListAny(<<AgoInt(10)>>)}

SmallVals == {AgoInt(10), AgoString(<<"a">>), AgoNull}

\* The values offered to set and inseri on the container c.
ValsFor(c) ==
  CASE c.k \in TypedListKinds -> PrimVals(ElemKind(c.k)) \cup OneOfEach
    [] c.k \in {"ListAny", "Struct"} -> SmallVals
    [] OTHER -> PrimVals("String") \cup {AgoString(<<>>), AgoString(<<"b", "a">>),
                                        AgoInt(10), AgoNull}

IndexInts == {-UsizeMod, -1} \cup 0..MaxLen \cup {UsizeMod + 1}

IntKeys == {AgoInt(i) : i \in IndexInts}

RangeKeys ==
  {AgoRange(s, e, i) : s \in {-1, 0, 2, UsizeMod},
                       e \in {-2, 0, 1, MaxLen + 1, I128Max},
                       i \in BOOLEAN}

OtherKeys == {AgoString(<<"a">>), AgoString(<<"b">>), AgoNull}

GetKeys == IntKeys \cup RangeKeys \cup OtherKeys
MutKeys == IntKeys \cup OtherKeys \cup {AgoRange(0, 1, TRUE)}

InitColls ==
  {AgoIntList(<<>>), AgoIntList(<<AgoInt(10), AgoInt(11)>>),
   AgoFloatList(<<AgoFloat(F64(15, -1)), AgoFloat(F64(0, 0))>>),
   AgoBoolList(<<AgoBool(TRUE), AgoBool(FALSE)>>),
   AgoStringList(<<AgoString(<<"a">>), AgoString(<<"b">>)>>),
   AgoListAny(<<>>), AgoListAny(<<AgoInt(10), AgoString(<<"a">>)>>),
   AgoString(<<"a", "b">>), AgoString(<<>>),
   AgoStruct(<<>>), AgoStruct([q \in {<<"a">>} |-> AgoInt(10)]),
   AgoInt(10), AgoFloat(F64(15, -1)), AgoBool(TRUE), AgoRange(0, 1, TRUE), AgoNull}

VARIABLES
  coll,     \* the container the caller owns
  before,   \* the container as it was before the last call
  op,       \* the last call: its name, key and value
  ret,      \* what the last call returned: a value, Unit or Err(e)
  undo,     \* set by removium when the call before it was a successful inseri;
            \* in the cast machine, the cast that produced the value in coll
  it,       \* the iterator made by the last into_iter call, NoArg when none
  out       \* the items the iterator has yielded so far, in order

vars == <<coll, before, op, ret, undo, it, out>>

Call(name, key, value) == [name |-> name, key |-> key, value |-> value]

Init ==
  /\ coll \in InitColls
  /\ before = coll
  /\ op = Call("init", NoArg, NoArg)
  /\ ret = NoArg
  /\ undo = NoArg
  /\ it = NoArg
  /\ out = <<>>

Get(key, oc) ==
  /\ ret' = get(coll, key, oc)
  /\ coll' = coll
  /\ before' = coll
  /\ op' = Call("get", key, NoArg)
  /\ undo' = NoArg
  /\ UNCHANGED <<it, out>>

Set(key, value) ==
  /\ coll' = set(coll, key, value).coll
  /\ ret' = set(coll, key, value).ret
  /\ before' = coll
  /\ op' = Call("set", key, value)
  /\ undo' = NoArg
  /\ UNCHANGED <<it, out>>

Inseri(key, value) ==
  /\ coll.k \in ListKinds => Len(coll.v) < MaxLen
  /\ coll' = inseri(coll, key, value).coll
  /\ ret' = inseri(coll, key, value).ret
  /\ before' = coll
  /\ op' = Call("inseri", key, value)
  /\ undo' = NoArg
  /\ UNCHANGED <<it, out>>

Removium(key) ==
  /\ coll' = removium(coll, key).coll
  /\ ret' = removium(coll, key).ret
  /\ before' = coll
  /\ op' = Call("removium", key, NoArg)
  /\ undo' = IF op.name = "inseri" /\ ret = Unit
               THEN [k |-> "Undo", key |-> op.key, value |-> op.value, before |-> before]
               ELSE NoArg
  /\ UNCHANGED <<it, out>>

Next ==
  \/ \E key \in GetKeys, oc \in BOOLEAN : Get(key, oc)
  \/ \E key \in MutKeys : \E value \in ValsFor(coll) : Set(key, value)
  \/ \E key \in MutKeys : \E value \in ValsFor(coll) : Inseri(key, value)
  \/ \E key \in MutKeys : Removium(key)

Spec == Init /\ [][Next]_vars

\* ------------------------------------------------------------ cast machine
TargetTypes ==
  {"Int", "Float", "Bool", "String", "IntList", "FloatList", "BoolList",
   "StringList", "Struct", "ListAny", "Range", "Null", "Any"}

StrAlphabet == {"1", "-", ".", "e", "a"}

CastStrings == UNION {[1..n -> StrAlphabet] : n \in 0..MaxStrLen}

KeyOrders == {<<(<<"a">>), (<<"b">>)>>, <<(<<"b">>), (<<"a">>)>>}

CastValues ==
  {AgoString(str) : str \in CastStrings}
  \cup {AgoInt(I128Min), AgoInt(-1), AgoInt(0), AgoInt(10), AgoInt(I128Max)}
  \cup {AgoFloat(F64(0, 0)), AgoFloat(F64(15, -1)), AgoFloat(F64(-39, -1)),
        AgoFloat(F64(25, -2)), AgoFloat(F64(1, 2)), AgoFloat(F64NaN),
        AgoFloat(F64Inf(-1))}
  \cup {AgoBool(TRUE), AgoBool(FALSE), AgoNull}
  \cup {AgoIntList(<<>>), AgoIntList(<<AgoInt(-1), AgoInt(0), AgoInt(10)>>),
        AgoIntList(<<AgoInt(I128Min), AgoInt(I128Max)>>),
        AgoFloatList(<<>>), AgoFloatList(<<AgoFloat(F64(15, -1)), AgoFloat(F64(0, 0))>>),
        AgoBoolList(<<>>), AgoBoolList(<<AgoBool(TRUE), AgoBool(FALSE)>>),
        AgoStringList(<<>>), AgoStringList(<<AgoString(<<"1">>), AgoString(<<"-", "1">>)>>),
        AgoStringList(<<AgoString(<<"1">>), AgoString(<<"a">>), AgoString(<<>>)>>)}
  \cup {AgoListAny(<<>>),
        AgoListAny(<<AgoInt(10), AgoString(<<"a">>), AgoNull>>),
        AgoListAny(<<AgoBool(TRUE), AgoBool(FALSE)>>),
        AgoListAny(<<AgoString(<<"a">>), AgoString(<<"b">>), AgoString(<<"a">>)>>),
        AgoListAny(<<AgoListAny(<<AgoString(<<"a">>), AgoInt(10)>>),
                     AgoListAny(<<AgoInt(1), AgoNull>>),
                     AgoListAny(<<AgoString(<<"a">>), AgoBool(TRUE)>>)>>),
        AgoListAny(<<AgoListAny(<<AgoInt(1), AgoInt(2)>>), AgoIntList(<<AgoInt(1), AgoInt(2)>>)>>),
        AgoListAny(<<AgoInt(1), AgoStruct(<<>>)>>)}
  \cup {AgoStruct(<<>>),
        AgoStruct([q \in {<<"a">>, <<"b">>} |->
                     IF q = <<"a">> THEN AgoInt(10) ELSE AgoString(<<"a">>)]),
        AgoStruct([q \in {<<"b">>} |-> AgoListAny(<<AgoInt(1), AgoNull>>)])}
  \cup {AgoRange(a, b, i) : a \in {-1, 0, 2}, b \in {-1, 0, 2}, i \in BOOLEAN}
  \cup {AgoRange(I128Max - 1, I128Max, i) : i \in BOOLEAN}
  \cup {AgoIntList([j \in DOMAIN f |-> AgoInt(f[j])]) :
          f \in UNION {[1..n -> {I128Min, -1, 0, 10, I128Max}] : n \in 1..2}}

Target(t) == [k |-> "Target", v |-> t]

InitCast ==
  /\ coll \in CastValues
  /\ before = coll
  /\ op = Call("init", NoArg, NoArg)
  /\ ret = NoArg
  /\ undo = NoArg
  /\ it = NoArg
  /\ out = <<>>

\* self.as_type(target) on the value the caller holds.  undo keeps telling
\* which cast produced that value.
AsType(target, ord) ==
  /\ ret' = as_type(coll, target, ord)
  /\ coll' = coll
  /\ before' = coll
  /\ op' = Call("as_type", Target(target), NoArg)
  /\ UNCHANGED <<undo, it, out>>

\* The caller keeps the value a cast returned and goes on with it, so that
\* the next as_type call casts the result of this one.  One level of this is
\* followed (a chain of two casts).
CastAgain ==
  /\ op.name = "as_type"
  /\ undo = NoArg
  /\ ~IsErr(ret)
  /\ coll' = ret
  /\ before' = ret
  /\ op' = Call("let", NoArg, NoArg)
  /\ ret' = NoArg
  /\ undo' = [k |-> "Cast", before |-> coll, target |-> op.key.v]
  /\ UNCHANGED <<it, out>>

NextCast ==
  \/ \E target \in TargetTypes, ord \in KeyOrders : AsType(target, ord)
  \/ CastAgain

SpecCast == InitCast /\ [][NextCast]_vars

\* -------------------------------------------------------- iterator machine
Some(v) == [k |-> "Some", v |-> v]
None == [k |-> "None"]

\* The iterators into_iter boxes: a slice iterator mapped through the
\* wrapping closure (wrap names the variant, "ListAny" for cloned()), the
\* chars of a String, the two std range iterators, and iter::empty().
IterSlice(wrap, v) == [k |-> "slice", wrap |-> wrap, v |-> v, pos |-> 0]
IterChars(s) == [k |-> "chars", v |-> s, pos |-> 0]
IterRange(start, end) == [k |-> "range", start |-> start, end |-> end]
IterRangeInclusive(start, end) ==
  [k |-> "range_inclusive", start |-> start, end |-> end, exhausted |-> FALSE]
IterEmpty == [k |-> "empty"]

into_iter(iterable) ==
  CASE iterable.k \in TypedListKinds -> IterSlice(ElemKind(iterable.k), iterable.v)
    [] iterable.k = "ListAny" -> IterSlice("ListAny", iterable.v)
    [] iterable.k = "String" -> IterChars(iterable.v)
    [] iterable.k = "Range" ->
         IF iterable.v.inclusive
           THEN IterRangeInclusive(iterable.v.start, iterable.v.end)
           ELSE IterRange(iterable.v.start, iterable.v.end)
    [] OTHER -> IterEmpty

Yield(item, i) == [item |-> item, it |-> i]

\* RangeInclusive<i128>::next: the last value is yielded by setting the
\* exhausted flag, without stepping past end.
RangeInclusiveNextStopsBeforeEnd(i) ==
  IF i.start < i.end
    THEN Yield(Some(AgoInt(i.start)), [i EXCEPT !.start = i.start + 1])
    ELSE Yield(None, i)
RangeInclusiveNext(i) ==
  IF i.exhausted \/ ~(i.start <= i.end) THEN Yield(None, i)
  ELSE IF i.start < i.end
    THEN Yield(Some(AgoInt(i.start)), [i EXCEPT !.start = i.start + 1])
    ELSE Yield(Some(AgoInt(i.start)), [i EXCEPT !.exhausted = TRUE])

\* slice::Iter::next under the wrapping closure.
SliceNextCycles(i) ==
  IF i.pos < Len(i.v)
    THEN Yield(Some(IF i.wrap = "ListAny" THEN i.v[i.pos + 1]
                    ELSE Wrap(i.wrap, i.v[i.pos + 1])),
               [i EXCEPT !.pos = i.pos + 1])
    ELSE Yield(None, [i EXCEPT !.pos = 0])
SliceNext(i) ==
  IF i.pos < Len(i.v)
    THEN Yield(Some(IF i.wrap = "ListAny" THEN i.v[i.pos + 1]
                    ELSE Wrap(i.wrap, i.v[i.pos + 1])),
               [i EXCEPT !.pos = i.pos + 1])
    ELSE Yield(None, i)

\* Iterator::next on the boxed iterator: the item (Some or None) and the
\* iterator afterwards.
next(i) ==
  CASE i.k = "slice" -> SliceNext(i)
    [] i.k = "chars" ->
         IF i.pos < Len(i.v)
           THEN Yield(Some(AgoString(<<i.v[i.pos + 1]>>)), [i EXCEPT !.pos = i.pos + 1])
           ELSE Yield(None, i)
    [] i.k = "range" ->
         IF i.start < i.end
           THEN Yield(Some(AgoInt(i.start)), [i EXCEPT !.start = i.start + 1])
           ELSE Yield(None, i)
    [] i.k = "range_inclusive" -> RangeInclusiveNext(i)
    [] i.k = "empty" -> Yield(None, i)

IterValues == CastValues

\* The number of next() calls followed on one iterator.
MaxNext == 6

Calls(c) == [k |-> "Calls", v |-> c]

InitIter ==
  /\ coll \in IterValues
  /\ before = coll
  /\ op = Call("init", NoArg, NoArg)
  /\ ret = NoArg
  /\ undo = NoArg
  /\ it = NoArg
  /\ out = <<>>

\* into_iter(&coll): a fresh iterator that borrows coll.  undo records how
\* many items the iterator it replaces had yielded.
IntoIter ==
  /\ it' = into_iter(coll)
  /\ out' = <<>>
  /\ op' = Call("into_iter", NoArg, NoArg)
  /\ ret' = NoArg
  /\ before' = coll
  /\ undo' = IF it = NoArg THEN undo ELSE [k |-> "Dropped", n |-> Len(out)]
  /\ coll' = coll

\* One next() call on the iterator (one turn of a for loop).
IterNext ==
  /\ it # NoArg
  /\ op.name = "next" => op.key.v < MaxNext
  /\ ret' = next(it).item
  /\ it' = next(it).it
  /\ out' = IF next(it).item = None THEN out ELSE Append(out, next(it).item.v)
  /\ op' = Call("next", Calls(IF op.name = "next" THEN op.key.v + 1 ELSE 1), NoArg)
  /\ before' = coll
  /\ UNCHANGED <<coll, undo>>

NextIter ==
  \/ IntoIter
  \/ IterNext

SpecIter == InitIter /\ [][NextIter]_vars

\* ---------------------------------------------------------------- operators
\* i128 arithmetic.  `/` and `%` truncate toward zero and panic on a zero
\* divisor and on MIN / -1; `+ - *` outside the i128 range panic when the
\* build has overflow checks (oc) and wrap around when it has not.
Sign(x) == IF x < 0 THEN -1 ELSE IF x > 0 THEN 1 ELSE 0

TruncDiv(a, b) == Sign(a) * Sign(b) * (Abs(a) \div Abs(b))
TruncRem(a, b) == a - b * TruncDiv(a, b)

IntWrap(x) == ((x - I128Min) % (2 * (I128Max + 1))) + I128Min

IntCheckedSaturating(x, oc) == AgoInt(Max(I128Min, Min(I128Max, x)))
IntChecked(x, oc) ==
  IF x >= I128Min /\ x <= I128Max THEN AgoInt(x)
  ELSE IF oc THEN Err("ArithmeticOverflow")
  ELSE AgoInt(IntWrap(x))

IntArith(name, a, b, oc) ==
  CASE name = "add" -> IntChecked(a + b, oc)
    [] name = "subtract" -> IntChecked(a - b, oc)
    [] name = "multiply" -> IntChecked(a * b, oc)
    [] name \in {"divide", "modulo"} ->
         IF b = 0 THEN Err("DivisionByZero")
         ELSE IF a = I128Min /\ b = -1 THEN Err("ArithmeticOverflow")
         ELSE IF name = "divide" THEN AgoInt(TruncDiv(a, b))
         ELSE AgoInt(TruncRem(a, b))

\* f64 arithmetic on the decimal model.  Sums, products and remainders of
\* finite decimals are exact; a quotient is cut to FloatDigits decimal
\* digits (an f64 quotient is rounded to 53 bits).  There is no negative
\* zero.
FloatDigits == 4

FloatNeg(x) ==
  CASE x.c = "nan" -> F64NaN
    [] x.c = "inf" -> F64Inf(-x.m)
    [] OTHER -> F64(-x.m, x.e)

FloatAdd(x, y) ==
  CASE x.c = "nan" \/ y.c = "nan" -> F64NaN
    [] x.c = "inf" /\ y.c = "inf" -> IF x.m = y.m THEN x ELSE F64NaN
    [] x.c = "inf" -> x
    [] y.c = "inf" -> y
    [] OTHER -> LET e == Min(x.e, y.e)
                IN Normalize(x.m * Pow10(x.e - e) + y.m * Pow10(y.e - e), e)

FloatMul(x, y) ==
  CASE x.c = "nan" \/ y.c = "nan" -> F64NaN
    [] x.c = "inf" \/ y.c = "inf" ->
         IF x.m = 0 \/ y.m = 0 THEN F64NaN ELSE F64Inf(Sign(x.m) * Sign(y.m))
    [] OTHER -> Normalize(x.m * y.m, x.e + y.e)

FloatDiv(x, y) ==
  CASE x.c = "nan" \/ y.c = "nan" -> F64NaN
    [] x.c = "inf" /\ y.c = "inf" -> F64NaN
    [] x.c = "inf" -> F64Inf(IF y.m < 0 THEN -x.m ELSE x.m)
    [] y.c = "inf" -> F64(0, 0)
    [] y.m = 0 -> IF x.m = 0 THEN F64NaN ELSE F64Inf(Sign(x.m))
    [] OTHER -> Normalize(Sign(x.m) * Sign(y.m)
                            * ((Abs(x.m) * Pow10(FloatDigits)) \div Abs(y.m)),
                          x.e - y.e - FloatDigits)

FloatRem(x, y) ==
  CASE x.c = "nan" \/ y.c = "nan" -> F64NaN
    [] x.c = "inf" -> F64NaN
    [] y.c = "inf" -> x
    [] y.m = 0 -> F64NaN
    [] OTHER -> LET e == Min(x.e, y.e)
                IN Normalize(TruncRem(x.m * Pow10(x.e - e), y.m * Pow10(y.e - e)), e)

FloatArith(name, x, y) ==
  CASE name = "add" -> FloatAdd(x, y)
    [] name = "subtract" -> FloatAdd(x, FloatNeg(y))
    [] name = "multiply" -> FloatMul(x, y)
    [] name = "divide" -> FloatDiv(x, y)
    [] name = "modulo" -> FloatRem(x, y)

\* `*a as f64`.
IntToFloat(a) == Normalize(a, 0)

\* The four numeric arms shared by numeric_op! and add.
NumericArms(name, left, right, oc) ==
  CASE left.k = "Float" /\ right.k = "Float" -> AgoFloat(FloatArith(name, left.v, right.v))
    [] left.k = "Float" /\ right.k = "Int" ->
         AgoFloat(FloatArith(name, left.v, IntToFloat(right.v)))
    [] left.k = "Int" /\ right.k = "Float" ->
         AgoFloat(FloatArith(name, IntToFloat(left.v), right.v))
    [] left.k = "Int" /\ right.k = "Int" -> IntArith(name, left.v, right.v, oc)

Numeric(v) == v.k \in {"Int", "Float"}

\* numeric_op!(subtract, -), (multiply, *), (divide, /), (modulo, %).
numeric_op(name, left, right, oc) ==
  IF Numeric(left) /\ Numeric(right) THEN NumericArms(name, left, right, oc)
  ELSE Err("UnsupportedOperandKinds")

\* extend_from_slice on a clone of a.
ConcatReversed(a, b) == b \o a
Concat(a, b) == a \o b

add(left, right, oc) ==
  IF Numeric(left) /\ Numeric(right) THEN NumericArms("add", left, right, oc)
  ELSE IF left.k = "String" /\ right.k = "String" THEN AgoString(Concat(left.v, right.v))
  ELSE IF left.k \in ListKinds /\ right.k = left.k THEN ListCtor(left.k, Concat(left.v, right.v))
  ELSE Err("UnsupportedOperandKinds")

\* f64 comparison: every comparison with a NaN is false.
FloatEq(x, y) == x.c # "nan" /\ y.c # "nan" /\ x = y

FloatLess(x, y) ==
  CASE x.c = "nan" \/ y.c = "nan" -> FALSE
    [] x.c = "inf" -> x.m < 0 /\ y # x
    [] y.c = "inf" -> y.m > 0
    [] OTHER -> LET e == Min(x.e, y.e)
                IN x.m * Pow10(x.e - e) < y.m * Pow10(y.e - e)

\* str's Ord: byte-wise lexicographic.  CharOrder lists the characters the
\* operands are written with, in ascending code order.
CharOrder == <<"-", ".", "1", "a", "b", "e">>
CharCode(ch) == CHOOSE i \in 1..Len(CharOrder) : CharOrder[i] = ch

RECURSIVE StrLess(_, _)
StrLess(a, b) ==
  IF b = <<>> THEN FALSE
  ELSE IF a = <<>> THEN TRUE
  ELSE IF Head(a) = Head(b) THEN StrLess(Tail(a), Tail(b))
  ELSE CharCode(Head(a)) < CharCode(Head(b))

\* `a $op b` for the four comparison operators, from less-than and equality.
Compare(name, lt, gt, eq_) ==
  CASE name = "less_than" -> lt
    [] name = "greater_than" -> gt
    [] name = "less_equal" -> lt \/ eq_
    [] name = "greater_equal" -> gt \/ eq_

CompareFloats(name, x, y) ==
  Compare(name, FloatLess(x, y), FloatLess(y, x), FloatEq(x, y))

\* comparison_op!(greater_than, >), (greater_equal, >=), (less_than, <),
\* (less_equal, <=).
comparison_op_NoStrings(name, left, right) ==
  IF Numeric(left) /\ Numeric(right)
    THEN AgoBool(CompareFloats(name,
                   IF left.k = "Int" THEN IntToFloat(left.v) ELSE left.v,
                   IF right.k = "Int" THEN IntToFloat(right.v) ELSE right.v))
    ELSE Err("UnsupportedOperandKinds")
comparison_op(name, left, right) ==
  CASE left.k = "Float" /\ right.k = "Float" -> AgoBool(CompareFloats(name, left.v, right.v))
    [] left.k = "Float" /\ right.k = "Int" ->
         AgoBool(CompareFloats(name, left.v, IntToFloat(right.v)))
    [] left.k = "Int" /\ right.k = "Float" ->
         AgoBool(CompareFloats(name, IntToFloat(left.v), right.v))
    [] left.k = "Int" /\ right.k = "Int" ->
         AgoBool(Compare(name, left.v < right.v, left.v > right.v, left.v = right.v))
    [] left.k = "String" /\ right.k = "String" ->
         AgoBool(Compare(name, StrLess(left.v, right.v), StrLess(right.v, left.v),
                         left.v = right.v))
    [] OTHER -> Err("UnsupportedOperandKinds")

\* The derived PartialEq of AgoType: same variant and equal payloads, where
\* f64 equality makes a NaN unequal to everything, itself included.
RECURSIVE eq(_, _)
eqIdentical(a, b) == a = b
eq(a, b) ==
  IF a.k # b.k THEN FALSE
  ELSE CASE a.k = "Float" -> FloatEq(a.v, b.v)
         [] a.k \in ListKinds ->
              /\ Len(a.v) = Len(b.v)
              /\ \A i \in 1..Len(a.v) : eq(a.v[i], b.v[i])
         [] a.k = "Struct" ->
              /\ DOMAIN a.v = DOMAIN b.v
              /\ \A q \in DOMAIN a.v : eq(a.v[q], b.v[q])
         [] OTHER -> a = b

\* str::contains(&str): n occurs in h as a contiguous run of characters.
StrContainsPrefixOnly(h, n) == Len(n) <= Len(h) /\ SubSeq(h, 1, Len(n)) = n
StrContains(h, n) ==
  \E i \in 1..(Len(h) - Len(n) + 1) : SubSeq(h, i, i + Len(n) - 1) = n

contains(haystack, needle) ==
  CASE haystack.k = "String" ->
         IF needle.k = "String" THEN AgoBool(StrContains(haystack.v, needle.v))
         ELSE Err("UnsupportedOperandKinds")
    [] haystack.k = "Struct" ->
         IF needle.k = "String" THEN AgoBool(needle.v \in DOMAIN haystack.v)
         ELSE Err("UnsupportedOperandKinds")
    [] haystack.k \in TypedListKinds ->
         IF needle.k = ElemKind(haystack.k)
           THEN AgoBool(\E i \in 1..Len(haystack.v) : eq(haystack.v[i], needle))
           ELSE Err("UnsupportedOperandKinds")
    [] haystack.k = "ListAny" ->
         AgoBool(\E i \in 1..Len(haystack.v) : eq(haystack.v[i], needle))
    [] OTHER -> Err("UnsupportedOperandKinds")

elvisLeftOrFail(left, right) ==
  IF left.k # "Null" THEN left ELSE Err("BothOperandsNull")
elvis(left, right) ==
  IF left.k # "Null" THEN left
  ELSE IF right.k # "Null" THEN right
  ELSE Err("BothOperandsNull")

aequalam(left, right) == AgoBool(eq(left, right))

\* -------------------------------------------------------- operator machine
\* The operands: coll is the left operand (the haystack of contains), the
\* right operand (the needle) is chosen with each call and kept in op.key.
OpValues ==
  {AgoInt(I128Min), AgoInt(-5), AgoInt(-1), AgoInt(0), AgoInt(2), AgoInt(5), AgoInt(I128Max)}
  \cup {AgoFloat(F64(0, 0)), AgoFloat(F64(15, -1)), AgoFloat(F64(-39, -1)),
        AgoFloat(F64(2, 0)), AgoFloat(F64(5, 0)), AgoFloat(F64NaN),
        AgoFloat(F64Inf(1)), AgoFloat(F64Inf(-1))}
  \cup {AgoBool(TRUE), AgoBool(FALSE), AgoNull}
  \cup {AgoString(<<>>), AgoString(<<"a">>), AgoString(<<"b">>), AgoString(<<"1">>),
        AgoString(<<"a", "b">>), AgoString(<<"b", "a">>), AgoString(<<"a", "b", "a">>)}
  \cup {AgoIntList(<<>>), AgoIntList(<<AgoInt(2)>>), AgoIntList(<<AgoInt(5), AgoInt(2)>>),
        AgoFloatList(<<>>), AgoFloatList(<<AgoFloat(F64(15, -1)), AgoFloat(F64NaN)>>),
        AgoBoolList(<<AgoBool(TRUE)>>), AgoBoolList(<<AgoBool(FALSE), AgoBool(TRUE)>>),
        AgoStringList(<<AgoString(<<"a">>), AgoString(<<"a", "b">>)>>),
        AgoStringList(<<AgoString(<<"b">>)>>)}
  \cup {AgoListAny(<<>>), AgoListAny(<<AgoInt(2)>>),
        AgoListAny(<<AgoInt(5), AgoString(<<"a">>), AgoNull>>),
        AgoListAny(<<AgoFloat(F64NaN), AgoIntList(<<AgoInt(2)>>)>>)}
  \cup {AgoStruct(<<>>), AgoStruct([q \in {<<"a">>} |-> AgoInt(2)]),
        AgoStruct([q \in {<<"a">>, <<"b">>} |->
                     IF q = <<"a">> THEN AgoInt(2) ELSE AgoString(<<"a">>)]),
        AgoStruct([q \in {<<"b">>} |-> AgoFloat(F64NaN)])}
  \cup {AgoRange(0, 2, TRUE), AgoRange(0, 2, FALSE)}

NumericOps == {"subtract", "multiply", "divide", "modulo"}
ComparisonOps == {"greater_than", "greater_equal", "less_than", "less_equal"}

InitOp ==
  /\ coll \in OpValues
  /\ before = coll
  /\ op = Call("init", NoArg, NoArg)
  /\ ret = NoArg
  /\ undo = NoArg
  /\ it = NoArg
  /\ out = <<>>

\* A binary operator takes both operands by reference and returns a new
\* value or panics.
Returns(name, right, r) ==
  /\ ret' = r
  /\ op' = Call(name, right, NoArg)
  /\ before' = coll
  /\ coll' = coll
  /\ UNCHANGED <<undo, it, out>>

Add(right, oc) == Returns("add", right, add(coll, right, oc))

NumericOp(name, right, oc) == Returns(name, right, numeric_op(name, coll, right, oc))

ComparisonOp(name, right) == Returns(name, right, comparison_op(name, coll, right))

Contains(needle) == Returns("contains", needle, contains(coll, needle))

Elvis(right) == Returns("elvis", right, elvis(coll, right))

Aequalam(right) == Returns("aequalam", right, aequalam(coll, right))

NextOp ==
  \/ \E right \in OpValues, oc \in BOOLEAN : Add(right, oc)
  \/ \E name \in NumericOps, right \in OpValues, oc \in BOOLEAN : NumericOp(name, right, oc)
  \/ \E name \in ComparisonOps, right \in OpValues : ComparisonOp(name, right)
  \/ \E needle \in OpValues : Contains(needle)
  \/ \E right \in OpValues : Elvis(right)
  \/ \E right \in OpValues : Aequalam(right)

SpecOp == InitOp /\ [][NextOp]_vars

\* ------------------------------------------------------------------ claims

\* C2: a typed list stays a list of its kind and holds only elements of its
\* own primitive kind, after every set, inseri and removium call, failed or
\* not; a value of another kind is never stored in it.
C2_TypedListHomogeneous ==
  before.k \in TypedListKinds =>
    /\ coll.k = before.k
    /\ \A i \in 1..Len(coll.v) : coll.v[i].k = ElemKind(coll.k)

C2_Witness ==
  /\ op.name \in {"set", "inseri"}
  /\ before.k = "FloatList"
  /\ op.key = AgoInt(1)
  /\ op.value.k = "Int"
  /\ ret = Err("ValueKindMismatch")
  /\ Len(coll.v) >= 2

\* C3: get with an Int index i on a list or String of length n returns the
\* element at position i when 0 <= i < n and fails with IndexOutOfBounds for
\* every other i of the i128 range.
C3_GetIndexChecked ==
  (op.name = "get" /\ before.k \in ListKinds \cup {"String"} /\ op.key.k = "Int") =>
    LET i == op.key.v
        n == Len(before.v)
        e == before.v[i + 1]
    IN IF 0 <= i /\ i < n
         THEN ret = CASE before.k \in TypedListKinds -> [k |-> ElemKind(before.k), v |-> e.v]
                      [] before.k = "ListAny" -> e
                      [] before.k = "String" -> AgoString(<<e>>)
         ELSE ret = Err("IndexOutOfBounds")

\* C4: get with a Range key on a list or String of length n never fails and
\* returns the elements at positions lo .. hi-1 as the same container kind,
\* lo = start clamped to [0, n], hi = (end + 1 if inclusive, else end) clamped
\* to [0, n]; the result is empty when hi <= lo.
C4_GetRangeClamped ==
  (op.name = "get" /\ before.k \in ListKinds \cup {"String"} /\ op.key.k = "Range") =>
    LET r == op.key.v
        n == Len(before.v)
        lo == Max(0, Min(r.start, n))
        hi == Max(0, Min(IF r.inclusive THEN r.end + 1 ELSE r.end, n))
    IN ret = [k |-> before.k, v |-> SubSeq(before.v, lo + 1, hi)]

\* C5: set at a valid index k of a list with a value of the matching kind
\* (any kind for ListAny) returns, get at k then yields the value, every
\* other position and the length are unchanged; with a value of another kind
\* set on a typed list fails with ValueKindMismatch.
C5_SetOnePosition ==
  (/\ op.name = "set" /\ before.k \in ListKinds /\ op.key.k = "Int"
   /\ 0 <= op.key.v /\ op.key.v < Len(before.v)) =>
    IF before.k = "ListAny" \/ op.value.k = ElemKind(before.k)
      THEN /\ ret = Unit
           /\ coll.k = before.k
           /\ Len(coll.v) = Len(before.v)
           /\ get(coll, op.key, FALSE) = op.value
           /\ \A j \in 1..Len(before.v) : j # op.key.v + 1 => coll.v[j] = before.v[j]
      ELSE ret = Err("ValueKindMismatch")

C5_Witness ==
  /\ op.name = "set" /\ before.k = "IntList" /\ ret = Unit
  /\ op.key = AgoInt(0) /\ Len(before.v) >= 2
  /\ coll.v[1] # before.v[1]
  /\ coll.v[2] # coll.v[1]

\* C6: inseri with a value of the matching kind at index k of a list of
\* length n puts the value at position k and shifts the rest right when
\* 0 <= k <= n, fails with IndexOutOfBounds for every other k, and fails with
\* ValueKindMismatch for a value of another kind on a typed list.
C6_InsertAtIndex ==
  (op.name = "inseri" /\ before.k \in ListKinds /\ op.key.k = "Int") =>
    LET k == op.key.v
        n == Len(before.v)
    IN IF before.k # "ListAny" /\ op.value.k # ElemKind(before.k)
         THEN ret = Err("ValueKindMismatch")
         ELSE IF 0 <= k /\ k <= n
                THEN /\ ret = Unit
                     /\ coll = [before EXCEPT !.v = SubSeq(before.v, 1, k) \o <<op.value>>
                                                      \o SubSeq(before.v, k + 1, n)]
                ELSE ret = Err("IndexOutOfBounds")

\* C7: removium at index k of a list of length n returns the element at k
\* and closes the gap when 0 <= k < n, and fails with IndexOutOfBounds for
\* every other k.
C7_RemoveAtIndex ==
  (op.name = "removium" /\ before.k \in ListKinds /\ op.key.k = "Int") =>
    LET k == op.key.v
        n == Len(before.v)
    IN IF 0 <= k /\ k < n
         THEN /\ ret = IF before.k = "ListAny" THEN before.v[k + 1]
                       ELSE [k |-> ElemKind(before.k), v |-> before.v[k + 1].v]
              /\ coll = [before EXCEPT !.v = SubSeq(before.v, 1, k)
                                               \o SubSeq(before.v, k + 2, n)]
         ELSE ret = Err("IndexOutOfBounds")

\* C8: inseri at a valid index k (0 <= k <= n) followed by removium at the
\* same k returns the inserted value and restores the list.
C8_InsertRemoveInverse ==
  (/\ op.name = "removium" /\ undo.k = "Undo" /\ undo.before.k \in ListKinds
   /\ undo.key = op.key
   /\ 0 <= op.key.v /\ op.key.v <= Len(undo.before.v)) =>
    /\ ret = undo.value
    /\ coll = undo.before

C8_Witness ==
  /\ op.name = "removium" /\ undo.k = "Undo" /\ undo.before.k = "IntList"
  /\ undo.key = op.key /\ op.key = AgoInt(1)
  /\ Len(undo.before.v) = 2
  /\ undo.before.v[1] # undo.before.v[2]
  /\ ret = undo.value
  /\ ret # undo.before.v[2]

\* C9: on a Struct a key that is not a String fails with KeyTypeMismatch in
\* all four calls; get and removium of an absent key fail with KeyNotFound;
\* set and inseri both map the key to the value (adding or overwriting) and
\* leave every other entry alone; removium of a present key returns its
\* value and deletes only that entry.
C9_StructKeys ==
  (before.k = "Struct" /\ op.name # "init") =>
    IF op.key.k # "String" THEN ret = Err("KeyTypeMismatch") /\ coll = before
    ELSE LET key == op.key.v
             m == before.v
         IN CASE op.name = "get" ->
                   ret = IF key \in DOMAIN m THEN m[key] ELSE Err("KeyNotFound")
              [] op.name \in {"set", "inseri"} ->
                   /\ ret = Unit
                   /\ DOMAIN coll.v = DOMAIN m \cup {key}
                   /\ coll.v[key] = op.value
                   /\ \A q \in DOMAIN m \ {key} : coll.v[q] = m[q]
                   /\ set(before, op.key, op.value) = inseri(before, op.key, op.value)
              [] op.name = "removium" ->
                   IF key \in DOMAIN m
                     THEN /\ ret = m[key]
                          /\ DOMAIN coll.v = DOMAIN m \ {key}
                          /\ \A q \in DOMAIN coll.v : coll.v[q] = m[q]
                     ELSE ret = Err("KeyNotFound")

C9_Witness ==
  /\ before.k = "Struct" /\ op.name = "inseri" /\ op.key = AgoString(<<"a">>)
  /\ DOMAIN before.v = {<<"a">>, <<"b">>}
  /\ before.v[<<"a">>] # op.value
  /\ coll.v[<<"a">>] = op.value

\* C1: for a value of each of the 12 kinds, the cast to its own kind and the
\* cast to Any succeed and return a value equal to it.
C1_IdentityCast ==
  (op.name = "as_type" /\ op.key.v \in {before.k, "Any"}) => ret = before

C1_Witness ==
  /\ op.name = "as_type" /\ op.key.v = "Range"
  /\ before.k = "Range" /\ ~before.v.inclusive
  /\ ret = before

\* C10: a cast whose (source kind, target kind) pair is not in the casting
\* matrix fails with UnsupportedCast, and String to Int and String to Float
\* fail with CastParseFailure when the text is not a numeral of that kind.
C10_UnsupportedAndParseFailure ==
  op.name = "as_type" =>
    LET src == before.k
        tgt == op.key.v
        listed ==
          \/ tgt \in {"Any", src}
          \/ src = "Int" /\ tgt \in {"Float", "Bool", "String"}
          \/ src = "Float" /\ tgt \in {"Int", "Bool", "String"}
          \/ src = "Bool" /\ tgt \in {"Int", "Float", "String"}
          \/ src = "String" /\ tgt \in {"Int", "Float", "Bool", "StringList"}
          \/ src \in ListKinds /\ tgt \in {"Int", "Bool", "String", "Range"} \cup ListKinds
          \/ src = "ListAny" /\ tgt = "Struct"
          \/ src = "Struct" /\ tgt \in {"Bool", "String", "StringList"}
          \/ src = "Range" /\ tgt \in {"String", "Bool", "IntList"}
          \/ src = "Null" /\ tgt \in {"Bool", "String", "Int", "Float"}
        signed == before.v # <<>> /\ before.v[1] \in {"+", "-"}
        body == IF signed THEN Tail(before.v) ELSE before.v
        n == Len(body)
        digits(a, b) == \A i \in a..b : body[i] \in DigitChars
        IntNumeral == n >= 1 /\ digits(1, n)
        FloatNumeral ==
          \E a \in 0..n, b \in 0..n, d \in 0..1, x \in 0..1, g \in 0..1 :
            LET p2 == a + d
                p3 == p2 + b
                p4 == p3 + x
                p5 == p4 + g
            IN /\ p5 <= n
               /\ a + b >= 1
               /\ digits(1, a)
               /\ IF d = 1 THEN body[a + 1] = "." ELSE b = 0
               /\ digits(p2 + 1, p3)
               /\ IF x = 1
                    THEN /\ body[p3 + 1] \in {"e", "E"}
                         /\ g = 1 => body[p4 + 1] \in {"+", "-"}
                         /\ p5 < n
                         /\ digits(p5 + 1, n)
                    ELSE g = 0 /\ p3 = n
        FloatWord ==
          [i \in 1..n |-> Lower(body[i])] \in
            {<<"i", "n", "f">>, <<"n", "a", "n">>, <<"i", "n", "f", "i", "n", "i", "t", "y">>}
    IN /\ ~listed => ret = Err("UnsupportedCast")
       /\ (src = "String" /\ tgt = "Int" /\ ~IntNumeral) => ret = Err("CastParseFailure")
       /\ (src = "String" /\ tgt = "Float" /\ ~FloatNumeral /\ ~FloatWord)
            => ret = Err("CastParseFailure")

C10_Witness ==
  /\ op.name = "as_type" /\ before = AgoNull /\ op.key.v = "IntList"
  /\ ret = Err("UnsupportedCast")

\* C11: casting Bool(true) to Float gives Float(1.0) and Bool(false) gives
\* Float(0.0); casting a BoolList, or a ListAny that holds only Bools, to
\* FloatList maps every true to 1.0 and every false to 0.0.
C11_BoolToFloat ==
  LET one_zero(b) == AgoFloat(IF b.v THEN F64(1, 0) ELSE F64(0, 0))
      bools == \/ before.k = "BoolList"
               \/ /\ before.k = "ListAny"
                  /\ \A i \in 1..Len(before.v) : before.v[i].k = "Bool"
  IN op.name = "as_type" =>
       /\ (before.k = "Bool" /\ op.key.v = "Float") => ret = one_zero(before)
       /\ (bools /\ op.key.v = "FloatList") =>
            ret = AgoFloatList([i \in 1..Len(before.v) |-> one_zero(before.v[i])])

\* C12: casting a ListAny to String gives the String casts of its elements,
\* in order, with two newline characters between consecutive items; the four
\* typed lists put one newline between items; a ListAny of one element casts
\* to that element's String form alone.
C12_ListAnyDoubleNewline ==
  LET texts(ord) == [i \in 1..Len(before.v) |-> as_type(before.v[i], "String", ord).v]
      RECURSIVE joined(_, _, _)
      joined(ts, i, sep) ==
        IF i > Len(ts) THEN <<>>
        ELSE IF i = Len(ts) THEN ts[i]
        ELSE ts[i] \o sep \o joined(ts, i + 1, sep)
  IN (op.name = "as_type" /\ op.key.v = "String" /\ before.k \in ListKinds) =>
       \E ord \in KeyOrders :
         /\ before.k = "ListAny" => ret = AgoString(joined(texts(ord), 1, <<"\n", "\n">>))
         /\ before.k \in TypedListKinds => ret = AgoString(joined(texts(ord), 1, <<"\n">>))
         /\ (before.k = "ListAny" /\ Len(before.v) = 1) => ret = AgoString(texts(ord)[1])

\* C13: casting a Range to IntList gives exactly the ascending list of the
\* integers i with start <= i <= end (inclusive) or start <= i < end
\* (exclusive), the empty list when there is none; casting it to Bool gives
\* true iff that list is not empty.
C13_RangeToIntList ==
  LET r == before.v
      last == IF r.inclusive THEN r.end ELSE r.end - 1
      n == IF last >= r.start THEN last - r.start + 1 ELSE 0
  IN (op.name = "as_type" /\ before.k = "Range") =>
       /\ op.key.v = "IntList" =>
            ret = AgoIntList([j \in 1..n |-> AgoInt(r.start + j - 1)])
       /\ op.key.v = "Bool" => ret = AgoBool(n > 0)

\* An inclusive range of several integers has been cast to IntList and the
\* list ends with the range's end.
C13_Witness ==
  /\ op.name = "as_type" /\ op.key.v = "IntList"
  /\ before.k = "Range" /\ before.v.inclusive /\ before.v.start < before.v.end
  /\ ret.k = "IntList" /\ Len(ret.v) >= 3
  /\ ret.v[Len(ret.v)] = AgoInt(before.v.end)

C15_ListCastElementwise ==
  LET src == before.v
      n == Len(src)
      t == op.key.v
      elem(i, ord) == as_type(src[i], ElemKind(t), ord)
  IN (/\ op.name = "as_type"
      /\ before.k \in ListKinds /\ t \in ListKinds /\ t # before.k) =>
       IF t = "ListAny"
         THEN ret.k = "ListAny" /\ Len(ret.v) = n /\ \A i \in 1..n : ret.v[i] = src[i]
         ELSE \E ord \in KeyOrders :
                IF \E i \in 1..n : IsErr(elem(i, ord)) THEN IsErr(ret)
                ELSE /\ ret.k = t /\ Len(ret.v) = n
                     /\ \A i \in 1..n : ret.v[i] = elem(i, ord)

\* A StringList whose first element is a numeral and whose second is not
\* has been cast to IntList, and the cast failed.
C15_Witness ==
  /\ op.name = "as_type" /\ op.key.v = "IntList"
  /\ before.k = "StringList" /\ Len(before.v) >= 2
  /\ ~IsErr(as_type(before.v[1], "Int", <<>>))
  /\ IsErr(as_type(before.v[2], "Int", <<>>))
  /\ IsErr(ret)

\* C16: casting an IntList to StringList and the result back to IntList
\* succeeds and gives the IntList again, for every IntList, the empty one
\* and those with negative elements included.
C16_IntListStringListRoundTrip ==
  (/\ undo.k = "Cast" /\ undo.before.k = "IntList" /\ undo.target = "StringList"
   /\ op.name = "as_type" /\ op.key.v = "IntList") =>
    /\ before.k = "StringList"
    /\ ret = undo.before

\* An IntList with a negative element has made the round trip.
C16_Witness ==
  /\ undo.k = "Cast" /\ undo.before.k = "IntList" /\ undo.target = "StringList"
  /\ op.name = "as_type" /\ op.key.v = "IntList"
  /\ \E i \in 1..Len(undo.before.v) : undo.before.v[i].v < 0
  /\ before.k = "StringList" /\ before.v[1].v[1] = "-"
  /\ ret.k = "IntList"

\* C17: a cast to Bool gives the truthiness of the source and never fails:
\* an Int or Float is true iff it is not zero, a String is false iff it is
\* empty, a list of any kind is true iff it holds an element, a Struct is
\* true iff it has a key, and Null is false.
C17_TruthinessCast ==
  (/\ op.name = "as_type" /\ op.key.v = "Bool"
   /\ before.k \in {"Int", "Float", "String", "Struct", "Null"} \cup ListKinds) =>
    ret = AgoBool(CASE before.k = "Int" -> before.v # 0
                    [] before.k = "Float" -> before.v # F64(0, 0)
                    [] before.k = "String" -> Len(before.v) > 0
                    [] before.k \in ListKinds -> Len(before.v) > 0
                    [] before.k = "Struct" -> Cardinality(DOMAIN before.v) > 0
                    [] before.k = "Null" -> FALSE)

\* The empty String has been cast to Bool and gave false.
C17_Witness ==
  /\ op.name = "as_type" /\ op.key.v = "Bool"
  /\ before = AgoString(<<>>)
  /\ ret = AgoBool(FALSE)

\* C18: casting a list of any kind (typed or ListAny) to Int gives the
\* number of its elements, 0 for the empty list; casting a typed list to
\* String gives the canonical texts of its elements, in order, with one
\* newline between consecutive texts and none after the last.
C18_ListSizeAndText ==
  LET n == Len(before.v)
      text(i) == as_type(before.v[i], "String", <<>>).v
      RECURSIVE upto(_)
      upto(i) == IF i = 0 THEN <<>>
                 ELSE IF i = 1 THEN text(1)
                 ELSE upto(i - 1) \o <<"\n">> \o text(i)
  IN (op.name = "as_type" /\ before.k \in ListKinds) =>
       /\ op.key.v = "Int" => ret = AgoInt(n)
       /\ (op.key.v = "String" /\ before.k \in TypedListKinds) => ret = AgoString(upto(n))

\* A typed list of three elements has been cast to String: the text holds
\* two newlines and does not end with one.
C18_Witness ==
  /\ op.name = "as_type" /\ op.key.v = "String"
  /\ before.k \in TypedListKinds /\ Len(before.v) = 3
  /\ ret.k = "String"
  /\ Cardinality({i \in 1..Len(ret.v) : ret.v[i] = "\n"}) = 2
  /\ ret.v[Len(ret.v)] # "\n"

\* C19: casting a list of any kind with n elements to Range gives the
\* inclusive Range from 0 to n - 1; for the empty list that is the inclusive
\* Range from 0 to -1, which is an empty range (it casts to false and to the
\* empty IntList).
C19_ListToRange ==
  /\ (op.name = "as_type" /\ op.key.v = "Range" /\ before.k \in ListKinds) =>
       ret = AgoRange(0, Len(before.v) - 1, TRUE)
  /\ (/\ undo.k = "Cast" /\ undo.target = "Range"
      /\ undo.before.k \in ListKinds /\ Len(undo.before.v) = 0
      /\ op.name = "as_type") =>
       /\ before = AgoRange(0, -1, TRUE)
       /\ op.key.v = "Bool" => ret = AgoBool(FALSE)
       /\ op.key.v = "IntList" => ret = AgoIntList(<<>>)

\* The empty ListAny has been cast to Range and gave 0..-1.
C19_Witness ==
  /\ op.name = "as_type" /\ op.key.v = "Range"
  /\ before = AgoListAny(<<>>)
  /\ ret.k = "Range" /\ ret.v.end = -1 /\ ret.v.inclusive

\* C20: the items an iterator yields are, in order and nothing else: for a
\* typed list each element wrapped as its primitive value; for a ListAny
\* each element as it is; for a String one one-character String per
\* character; for a Range the ascending Ints from start up to end (end
\* included iff inclusive), none when the range is empty; for every other
\* kind (Int, Float, Bool, Struct, Null) nothing, without a failure.
C20_IterateYields ==
  LET v == coll.v
      last == IF v.inclusive THEN v.end ELSE v.end - 1
      n == IF last >= v.start THEN last - v.start + 1 ELSE 0
      items ==
        CASE coll.k \in TypedListKinds ->
               [i \in 1..Len(v) |-> [k |-> ElemKind(coll.k), v |-> v[i].v]]
          [] coll.k = "ListAny" -> v
          [] coll.k = "String" -> [i \in 1..Len(v) |-> AgoString(<<v[i]>>)]
          [] coll.k = "Range" -> [j \in 1..n |-> AgoInt(v.start + j - 1)]
          [] OTHER -> <<>>
  IN op.name \in {"into_iter", "next"} =>
       /\ Len(out) <= Len(items) /\ out = SubSeq(items, 1, Len(out))
       /\ op.name = "next" =>
            ret = None \/ (Len(out) > 0 /\ ret = Some(out[Len(out)]))
       /\ (op.name = "next" /\ ret = None) => out = items

\* An inclusive Range of several integers has been iterated to exhaustion
\* and its end was the last item.
C20_Witness ==
  /\ op.name = "next" /\ ret = None
  /\ coll.k = "Range" /\ coll.v.inclusive /\ coll.v.start < coll.v.end
  /\ Len(out) >= 3 /\ out[Len(out)] = AgoInt(coll.v.end)

\* C21: an iterator over a value with n items (the elements of a list, the
\* characters of a String, the integers of a Range) yields an item on each
\* of its first n next() calls and reports exhaustion on every later call;
\* a new into_iter call on the same value starts again at the first item
\* however far the earlier iterator was consumed; and iterating never
\* changes the iterated value.
C21_FiniteSinglePassFresh ==
  LET v == coll.v
      last == IF v.inclusive THEN v.end ELSE v.end - 1
      n == CASE coll.k \in ListKinds \cup {"String"} -> Len(v)
             [] coll.k = "Range" -> IF last >= v.start THEN last - v.start + 1 ELSE 0
             [] OTHER -> 0
      first == CASE coll.k \in TypedListKinds -> [k |-> ElemKind(coll.k), v |-> v[1].v]
                 [] coll.k = "ListAny" -> v[1]
                 [] coll.k = "String" -> AgoString(<<v[1]>>)
                 [] coll.k = "Range" -> AgoInt(v.start)
  IN /\ op.name \in {"into_iter", "next"} => coll = before
     /\ op.name = "into_iter" => out = <<>>
     /\ op.name = "next" =>
          IF op.key.v <= n
            THEN /\ ret # None /\ Len(out) = op.key.v
                 /\ op.key.v = 1 => ret = Some(first)
            ELSE ret = None /\ Len(out) = n

\* A second iterator, made after the first had yielded one or more items,
\* has yielded all n >= 2 items and has then reported exhaustion twice.
C21_Witness ==
  /\ undo.k = "Dropped" /\ undo.n >= 1
  /\ op.name = "next" /\ ret = None
  /\ Len(out) >= 2 /\ op.key.v >= Len(out) + 2

\* C22 as stated: subtract, multiply, divide and modulo (and add) of two
\* Ints give an Int, the quotient and the remainder matching each other; if
\* either operand is a Float the result is the Float computed after
\* promoting the Int operand; with any non-numeric operand subtract,
\* multiply, divide and modulo fail with UnsupportedOperandKinds.
C22_Arithmetic_AlwaysInt ==
  LET l == before
      r == op.key
      promote(x) == IF x.k = "Int" THEN AgoFloat(IntToFloat(x.v)) ELSE x
      numeric(x) == x.k \in {"Int", "Float"}
  IN op.name \in NumericOps \cup {"add"} =>
       /\ (l.k = "Int" /\ r.k = "Int") => ret.k = "Int"
       /\ (l.k = "Int" /\ r.k = "Int" /\ op.name = "divide" /\ ret.k = "Int") =>
            \E m \in -Abs(r.v)..Abs(r.v) :
              /\ Abs(m) < Abs(r.v) /\ ret.v * r.v + m = l.v
              /\ numeric_op("modulo", l, r, TRUE) = AgoInt(m)
       /\ (numeric(l) /\ numeric(r) /\ "Float" \in {l.k, r.k}) =>
            /\ ret.k = "Float"
            /\ ret = (IF op.name = "add" THEN add(promote(l), promote(r), TRUE)
                      ELSE numeric_op(op.name, promote(l), promote(r), TRUE))
       /\ (op.name \in NumericOps /\ ~(numeric(l) /\ numeric(r))) =>
            ret = Err("UnsupportedOperandKinds")

\* C22 amended: two Ints give an Int when the exact result lies in the i128
\* range and, for divide and modulo, the divisor is not zero (the quotient
\* and the remainder matching each other); divide and modulo by Int zero,
\* and of the smallest Int by -1, fail; add, subtract and multiply with a
\* result outside the range fail or wrap around.  The Float and the
\* non-numeric parts are as stated.
C22_Arithmetic ==
  LET l == before
      r == op.key
      promote(x) == IF x.k = "Int" THEN AgoFloat(IntToFloat(x.v)) ELSE x
      numeric(x) == x.k \in {"Int", "Float"}
      exact == CASE op.name = "add" -> l.v + r.v
                 [] op.name = "subtract" -> l.v - r.v
                 [] op.name = "multiply" -> l.v * r.v
  IN op.name \in NumericOps \cup {"add"} =>
       /\ (l.k = "Int" /\ r.k = "Int" /\ op.name \in {"add", "subtract", "multiply"}) =>
            IF exact >= I128Min /\ exact <= I128Max THEN ret = AgoInt(exact)
            ELSE \/ IsErr(ret)
                 \/ /\ ret.k = "Int" /\ ret.v >= I128Min /\ ret.v <= I128Max
                    /\ (ret.v - exact) % (2 * (I128Max + 1)) = 0
       /\ (l.k = "Int" /\ r.k = "Int" /\ op.name \in {"divide", "modulo"}) =>
            IF r.v = 0 \/ (l.v = I128Min /\ r.v = -1) THEN IsErr(ret)
            ELSE /\ ret.k = "Int"
                 /\ op.name = "divide" =>
                      \E m \in -Abs(r.v)..Abs(r.v) :
                        /\ Abs(m) < Abs(r.v) /\ ret.v * r.v + m = l.v
                        /\ numeric_op("modulo", l, r, TRUE) = AgoInt(m)
                 /\ op.name = "modulo" =>
                      \E q \in -Abs(l.v)..Abs(l.v) :
                        /\ Abs(ret.v) < Abs(r.v) /\ q * r.v + ret.v = l.v
                        /\ numeric_op("divide", l, r, TRUE) = AgoInt(q)
       /\ (numeric(l) /\ numeric(r) /\ "Float" \in {l.k, r.k}) =>
            /\ ret.k = "Float"
            /\ ret = (IF op.name = "add" THEN add(promote(l), promote(r), TRUE)
                      ELSE numeric_op(op.name, promote(l), promote(r), TRUE))
       /\ (op.name \in NumericOps /\ ~(numeric(l) /\ numeric(r))) =>
            ret = Err("UnsupportedOperandKinds")

\* Int 5 has been divided by Int 2 and gave Int 2.
C22_Witness ==
  /\ op.name = "divide" /\ before = AgoInt(5) /\ op.key = AgoInt(2)
  /\ ret = AgoInt(2)

\* C23: add of two Strings gives the left text followed by the right text;
\* add of two lists of the same kind gives a new list of that kind holding
\* the left operand's elements followed by the right operand's, and leaves
\* both operands as they were; add of lists of different kinds, or of a
\* number with a String or a list, fails with UnsupportedOperandKinds.
C23_AddConcatenates ==
  LET l == before
      r == op.key
      follows(x) == /\ Len(x) = Len(l.v) + Len(r.v)
                    /\ \A i \in 1..Len(l.v) : x[i] = l.v[i]
                    /\ \A j \in 1..Len(r.v) : x[Len(l.v) + j] = r.v[j]
      numeric(x) == x.k \in {"Int", "Float"}
  IN op.name = "add" =>
       /\ (l.k = "String" /\ r.k = "String") => ret.k = "String" /\ follows(ret.v)
       /\ (l.k \in ListKinds /\ r.k = l.k) =>
            ret.k = l.k /\ follows(ret.v) /\ coll = l
       /\ (l.k \in ListKinds /\ r.k \in ListKinds /\ r.k # l.k) =>
            ret = Err("UnsupportedOperandKinds")
       /\ (\/ numeric(l) /\ r.k \in ListKinds \cup {"String"}
           \/ numeric(r) /\ l.k \in ListKinds \cup {"String"}) =>
            ret = Err("UnsupportedOperandKinds")

\* A two-element IntList and a one-element IntList have been added.
C23_Witness ==
  /\ op.name = "add" /\ before.k = "IntList" /\ op.key.k = "IntList"
  /\ Len(before.v) = 2 /\ Len(op.key.v) = 1
  /\ before.v[1] # op.key.v[1]
  /\ ret.k = "IntList" /\ Len(ret.v) = 3 /\ ret.v[3] = op.key.v[1]

\* C24: greater_than, greater_equal, less_than and less_equal return a Bool
\* for exactly the pairs (Int, Int), (Float, Float), (Int, Float),
\* (Float, Int), compared as numbers after promotion, and (String, String),
\* compared lexicographically, and fail for every other pair; on Int pairs
\* and on String pairs exactly one of a < b, a = b, a > b holds,
\* greater_equal is the negation of less_than and less_equal the negation
\* of greater_than.
C24_Comparisons ==
  LET l == before
      r == op.key
      numeric(x) == x.k \in {"Int", "Float"}
      promote(x) == IF x.k = "Int" THEN AgoFloat(IntToFloat(x.v)) ELSE x
      lexLess(a, b) ==
        \E p \in 1..Len(b) :
          /\ p <= Len(a) + 1
          /\ SubSeq(a, 1, p - 1) = SubSeq(b, 1, p - 1)
          /\ p = Len(a) + 1 \/ CharCode(a[p]) < CharCode(b[p])
      holds(lt, gt, e) ==
        CASE op.name = "less_than" -> lt
          [] op.name = "greater_than" -> gt
          [] op.name = "less_equal" -> ~gt
          [] op.name = "greater_equal" -> ~lt
      call(name) == comparison_op(name, l, r).v
  IN op.name \in ComparisonOps =>
       /\ ret.k = "Bool" <=>
            ((numeric(l) /\ numeric(r)) \/ (l.k = "String" /\ r.k = "String"))
       /\ ret.k # "Bool" => IsErr(ret)
       /\ (l.k = "Int" /\ r.k = "Int") =>
            ret = AgoBool(holds(l.v < r.v, l.v > r.v, l.v = r.v))
       /\ (numeric(l) /\ numeric(r)) =>
            ret = comparison_op(op.name, promote(l), promote(r))
       /\ (l.k = "String" /\ r.k = "String") =>
            ret = AgoBool(holds(lexLess(l.v, r.v), lexLess(r.v, l.v), l.v = r.v))
       /\ (l.k = r.k /\ l.k \in {"Int", "String"}) =>
            /\ Cardinality({x \in {"lt", "eq", "gt"} :
                  \/ x = "lt" /\ call("less_than")
                  \/ x = "eq" /\ aequalam(l, r).v
                  \/ x = "gt" /\ call("greater_than")}) = 1
            /\ call("greater_equal") = ~call("less_than")
            /\ call("less_equal") = ~call("greater_than")

\* A String has been compared with a longer String that starts with it,
\* and is less.
C24_Witness ==
  /\ op.name = "less_than" /\ before.k = "String" /\ op.key.k = "String"
  /\ Len(before.v) >= 1 /\ Len(op.key.v) > Len(before.v)
  /\ SubSeq(op.key.v, 1, Len(before.v)) = before.v
  /\ ret = AgoBool(TRUE)

C26_Elvis ==
  op.name = "elvis" =>
    /\ before # AgoNull => ret = before
    /\ (before = AgoNull /\ op.key # AgoNull) => ret = op.key
    /\ ret = Err("BothOperandsNull") <=> (before = AgoNull /\ op.key = AgoNull)
    /\ IsErr(ret) => ret = Err("BothOperandsNull")

\* elvis of Null and a value that is not Null has returned that value.
C26_Witness ==
  /\ op.name = "elvis" /\ before = AgoNull
  /\ op.key.k = "ListAny" /\ Len(op.key.v) > 0
  /\ ret = op.key

\* C27 as stated: equals(a, b) never fails and is true iff a and b are the
\* same variant with structurally equal payloads, so false for two values
\* of different variants; it is symmetric; and two Structs with the same
\* entries are equal whatever the order in which the entries were inserted.
C27_Equals_NaNEqualsItself ==
  LET l == before
      r == op.key
      RECURSIVE hasNaN(_)
      hasNaN(x) ==
        CASE x.k = "Float" -> x.v = F64NaN
          [] x.k \in ListKinds -> \E i \in 1..Len(x.v) : hasNaN(x.v[i])
          [] x.k = "Struct" -> \E q \in DOMAIN x.v : hasNaN(x.v[q])
          [] OTHER -> FALSE
      same(a, b) == a = b
      built(ord) ==
        LET ks == KeysInOrder(l.v, ord)
        IN AgoStruct(IF Len(ks) = 0 THEN <<>>
                     ELSE IF Len(ks) = 1 THEN MapInsert(<<>>, ks[1], l.v[ks[1]])
                     ELSE MapInsert(MapInsert(<<>>, ks[1], l.v[ks[1]]), ks[2], l.v[ks[2]]))
  IN op.name = "aequalam" =>
       /\ ret = AgoBool(same(l, r))
       /\ l.k # r.k => ret = AgoBool(FALSE)
       /\ aequalam(r, l) = ret
       /\ l.k = "Struct" =>
            \A o1 \in KeyOrders, o2 \in KeyOrders :
              aequalam(built(o1), built(o2)) = AgoBool(same(l, l))

\* C27 amended: as above, except that a Float NaN is equal to no Float,
\* itself included, so that a value holding a NaN (a Float, or a FloatList,
\* ListAny or Struct with a NaN inside) is not equal to itself.
C27_Equals ==
  LET l == before
      r == op.key
      RECURSIVE hasNaN(_)
      hasNaN(x) ==
        CASE x.k = "Float" -> x.v = F64NaN
          [] x.k \in ListKinds -> \E i \in 1..Len(x.v) : hasNaN(x.v[i])
          [] x.k = "Struct" -> \E q \in DOMAIN x.v : hasNaN(x.v[q])
          [] OTHER -> FALSE
      same(a, b) == a = b /\ ~hasNaN(a)
      built(ord) ==
        LET ks == KeysInOrder(l.v, ord)
        IN AgoStruct(IF Len(ks) = 0 THEN <<>>
                     ELSE IF Len(ks) = 1 THEN MapInsert(<<>>, ks[1], l.v[ks[1]])
                     ELSE MapInsert(MapInsert(<<>>, ks[1], l.v[ks[1]]), ks[2], l.v[ks[2]]))
  IN op.name = "aequalam" =>
       /\ ret = AgoBool(same(l, r))
       /\ l.k # r.k => ret = AgoBool(FALSE)
       /\ aequalam(r, l) = ret
       /\ l.k = "Struct" =>
            \A o1 \in KeyOrders, o2 \in KeyOrders :
              aequalam(built(o1), built(o2)) = AgoBool(same(l, l))

\* Int(5) and Float(5.0) have been compared and are not equal.
C27_Witness ==
  /\ op.name = "aequalam"
  /\ before = AgoInt(5) /\ op.key = AgoFloat(F64(5, 0))
  /\ ret = AgoBool(FALSE)

\* C28: set on a String of n characters with Int index k and a String
\* value v: when v has exactly one character and 0 <= k < n, the String
\* becomes the same text with only character k replaced by v; when v is
\* empty or has more than one character the call fails with
\* InvalidCharacterReplacement; when k is out of range it fails with
\* IndexOutOfBounds.
C28_SetStringChar ==
  LET k == op.key.v
      n == Len(before.v)
      v == op.value.v
  IN (/\ op.name = "set" /\ before.k = "String"
      /\ op.key.k = "Int" /\ op.value.k = "String") =>
       IF Len(v) # 1 THEN ret = Err("InvalidCharacterReplacement")
       ELSE IF 0 <= k /\ k < n
         THEN /\ ret = Unit
              /\ coll.k = "String" /\ Len(coll.v) = n
              /\ \A i \in 1..n : coll.v[i] = (IF i = k + 1 THEN v[1] ELSE before.v[i])
       ELSE ret = Err("IndexOutOfBounds")

\* C29: get, set, inseri and removium on a container of kind Int, Float,
\* Bool, Range or Null fail with UnsupportedContainerOperation for every
\* key and value, and so do inseri and removium on a String; none of these
\* calls returns a value.
C29_UnsupportedContainers ==
  (\/ /\ op.name \in {"get", "set", "inseri", "removium"}
      /\ before.k \in {"Int", "Float", "Bool", "Range", "Null"}
   \/ /\ op.name \in {"inseri", "removium"}
      /\ before.k = "String") =>
    ret = Err("UnsupportedContainerOperation")

\* removium with a valid position has been tried on a String and failed.
C29_Witness ==
  /\ op.name = "removium" /\ before.k = "String"
  /\ op.key.k = "Int" /\ 0 <= op.key.v /\ op.key.v < Len(before.v)
  /\ ret = Err("UnsupportedContainerOperation")

\* C30: a failing set, inseri or removium on a list, String or Struct
\* (index out of bounds, value kind mismatch, non-string struct key,
\* missing struct key, invalid character replacement, wrong index kind)
\* leaves the container exactly as it was before the call.
C30_FailedMutationChangesNothing ==
  (/\ op.name \in {"set", "inseri", "removium"}
   /\ before.k \in ListKinds \cup {"String", "Struct"}
   /\ IsErr(ret)) =>
    coll = before

\* A set with a value of the wrong kind has failed on a typed list that
\* holds elements.
C30_Witness ==
  /\ op.name = "set" /\ before.k \in TypedListKinds /\ Len(before.v) >= 2
  /\ ret = Err("ValueKindMismatch")
  /\ coll = before
====
